---- MODULE Spec2Model ----
(***************************************************************************)
(* pyhomie (src/pyhomie/__init__.py): a Homie device, its Nodes and their  *)
(* Properties over an MQTT client.  Every public operation and every       *)
(* transport callback is one action; an operation is computed on a heap    *)
(* record h (the fields of the Device, the Nodes and the Properties, plus  *)
(* what the operation handed to the client and the exception it raised),   *)
(* statement by statement as the Python code runs it.  Once h.exc is set,  *)
(* every later statement of the operation is skipped: the exception        *)
(* propagates to the caller and the assignments made before it stay.       *)
(*                                                                         *)
(* Strings that are parsed or joined are sequences of tokens: a digit, a   *)
(* sign or a comma is one token, a word is one token.  Topics are          *)
(* sequences of their "/"-separated segments.                              *)
(***************************************************************************)
EXTENDS Integers, Sequences, FiniteSets, TLC

\* ------------------------------------------------------------ universe

\* How many operations of each kind one run makes: lifecycle operations (connect,
\* disconnect, an assignment to Device.state, the connected and disconnected
\* signals), attribute setters, tree changes (add or remove), inbound messages.
MaxLife == 4
MaxSets == 1
MaxTree == 1
MaxMsgs == 1
\* ... and how many operations that are not lifecycle operations.
MaxSide == 2
\* the life operations a run of the lifecycle alone makes beyond MaxLife
MaxMore == 3

Root == "homie"
DevId == "dev"
HomieVersion == <<"4", ".", "0", ".", "0">>

Nodes == {"n1", "n2"}
Props == {<<"n1", "p1">>, <<"n1", "p2">>, <<"n2", "p1">>}

States == {"disconnected", "init", "ready", "sleeping", "alert"}
RESTRICTED_STATES == {"ready", "sleeping", "alert"}

NoneP == <<"<None>">>
NoneV == [k |-> "none", i |-> 0, s |-> <<>>]
IntV(n) == [k |-> "int", i |-> n, s |-> <<>>]
BoolV(b) == [k |-> "bool", i |-> IF b THEN 1 ELSE 0, s |-> <<>>]
StrV(t) == [k |-> "str", i |-> 0, s |-> t]

DataTypes == {"integer", "boolean", "string"}
DevNames == {<<"pump">>, <<"pump2">>}
ExtLists == {<<>>, <<"org.x">>}
NodeNames == {<<"motor">>, <<"motor2">>}
NodeTypes == {<<"actuator">>, <<"sensor">>}
PropNames == {<<"speed">>, <<"speed2">>}
Formats == {NoneP, <<"0", ":", "9">>}
Units == {<<"None">>, <<"rpm">>}
Values == {IntV(75), BoolV(FALSE)}
Payloads == {<<"7", "5">>, <<"0", "7", "5">>, <<"0">>, <<"true">>, <<"x">>}
StateInputs == States \cup {"lost"}

\* The program: the Device's fields, the Nodes' (n...) and the Properties'
\* (p...), the client's connection (link) and subscriptions (subs), and the
\* last \$state payload handed to the client (pubState).  The last operation:
\* its name, inputs, what it handed to the client in order (out), the exception
\* it raised (exc), what a delivery reached (hooks), whether it published
\* anything but \$state while the published \$state was restricted (steady), and
\* Device.state before it (was).  dyn: the Nodes added by add_node while the
\* Device was attached.  pass: what the last connected signal (rc = 0) handed
\* to the client, kept while nothing but the disconnected signal that follows it
\* has run since.  call: where a call of the Property.settable setter that a
\* host thread runs statement by statement stands, with its locals.  nops: the operations made so far, by kind.
VARIABLES state, nodes_init, nodes, name, extensions, implementation,
          ndevice, nproperties_init, nproperties, nname, ntype,
          pnode, pname, pdata_type, pformat, psettable, pretained, punit, pvalue,
          link, subs, pubState, op, arg, out, exc, hooks, steady, was, dyn, pass, call, nops

progvars == <<state, nodes_init, nodes, name, extensions, implementation,
              ndevice, nproperties_init, nproperties, nname, ntype,
              pnode, pname, pdata_type, pformat, psettable, pretained, punit, pvalue,
              link, subs, pubState>>
vars == <<state, nodes_init, nodes, name, extensions, implementation,
          ndevice, nproperties_init, nproperties, nname, ntype,
          pnode, pname, pdata_type, pformat, psettable, pretained, punit, pvalue,
          link, subs, pubState, op, arg, out, exc, hooks, steady, was, dyn, pass, call, nops>>

\* The heap an operation starts from: the program's fields, and an empty record
\* of what the operation did.
Heap == [state |-> state, nodes_init |-> nodes_init, nodes |-> nodes, name |-> name,
         extensions |-> extensions, implementation |-> implementation,
         ndevice |-> ndevice, nproperties_init |-> nproperties_init,
         nproperties |-> nproperties, nname |-> nname, ntype |-> ntype,
         pnode |-> pnode, pname |-> pname, pdata_type |-> pdata_type,
         pformat |-> pformat, psettable |-> psettable, pretained |-> pretained,
         punit |-> punit, pvalue |-> pvalue, link |-> link, subs |-> subs,
         pubState |-> pubState,
         out |-> <<>>, exc |-> "none", hooks |-> <<>>, steady |-> FALSE]

Ok(h) == h.exc = "none"
Raise(h, e) == IF Ok(h) THEN [h EXCEPT !.exc = e] ELSE h

\* ------------------------------------------------------------ strings

RECURSIVE Join(_)
\* ",".join(ids)
Join(ids) ==
    IF ids = <<>> THEN <<>>
    ELSE IF Len(ids) = 1 THEN <<ids[1]>>
    ELSE <<ids[1], ",">> \o Join(Tail(ids))

Digits == <<"0", "1", "2", "3", "4", "5", "6", "7", "8", "9">>
IsDigit(c) == \E d \in 1..10 : Digits[d] = c
DigitVal(c) == (CHOOSE d \in 1..10 : Digits[d] = c) - 1

RECURSIVE ParseNat(_, _)
ParseNat(s, acc) == IF s = <<>> THEN acc ELSE ParseNat(Tail(s), acc * 10 + DigitVal(s[1]))

AllDigits(s) == s # <<>> /\ \A j \in 1..Len(s) : IsDigit(s[j])

\* int(text): an optional sign and decimal digits, anything else is a ValueError.
IntOk(s) == \/ AllDigits(s)
            \/ s # <<>> /\ s[1] \in {"-", "+"} /\ AllDigits(Tail(s))
IntOf(s) == IF s[1] = "-" THEN 0 - ParseNat(Tail(s), 0)
            ELSE IF s[1] = "+" THEN ParseNat(Tail(s), 0)
            ELSE ParseNat(s, 0)

RECURSIVE NatStr(_)
NatStr(n) == IF n < 10 THEN <<Digits[n + 1]>> ELSE NatStr(n \div 10) \o <<Digits[(n % 10) + 1]>>
\* str(n), as the client casts an int payload to bytes
IntStr(n) == IF n < 0 THEN <<"-">> \o NatStr(0 - n) ELSE NatStr(n)

\* Python's ==/!= between two values: bool is an int (True == 1).
PyEq(a, b) ==
    \/ a = b
    \/ a.k \in {"int", "bool"} /\ b.k \in {"int", "bool"} /\ a.i = b.i
Truthy(v) == CASE v.k = "int" -> v.i # 0
               [] v.k = "bool" -> v.i = 1
               [] v.k = "str" -> v.s # <<>>
               [] OTHER -> FALSE

\* The bytes the client sends for a payload it is handed: None stays None, a str
\* is sent as is, an int (and so a bool) is sent as str(payload).
ClientBytes(v) == CASE v.k = "none" -> NoneP
                    [] v.k = "int" -> IntStr(v.i)
                    [] v.k = "bool" -> IF v.i = 1 THEN <<"True">> ELSE <<"False">>
                    [] OTHER -> v.s

BoolStr(b) == IF b THEN <<"true">> ELSE <<"false">>

\* ------------------------------------------------------------ Device

DevTopic == <<Root, DevId>>

\* paho's Client.publish as Device.publish calls it; the model also keeps the last
\* $state payload handed over, and notes a publish of anything else made while
\* that payload is a restricted state.
ClientPublish(h, topic, payload, retain) ==
    [h EXCEPT !.out = Append(@, [kind |-> "pub", topic |-> topic,
                                  payload |-> payload, retain |-> retain]),
              !.pubState = IF topic = DevTopic \o <<"$state">> THEN payload[1] ELSE @,
              !.steady = @ \/ (topic # DevTopic \o <<"$state">>
                               /\ h.pubState \in RESTRICTED_STATES)]

ClientSubscribe(h, topic) ==
    [h EXCEPT !.out = Append(@, [kind |-> "sub", topic |-> topic,
                                  payload |-> NoneP, retain |-> FALSE]),
              !.subs = @ \cup {topic}]

Device_publish(h, topic, payload, retain) ==
    IF ~Ok(h) THEN h
    ELSE IF h.state = "disconnected" THEN Raise(h, "RuntimeError")
    ELSE ClientPublish(h, DevTopic \o topic, payload, retain)

Device_subscribe(h, topic) ==
    IF ~Ok(h) THEN h
    ELSE IF h.state = "disconnected" THEN Raise(h, "RuntimeError")
    ELSE ClientSubscribe(h, DevTopic \o topic)

\* Device.state (setter): Device.State(state) raises ValueError for a value that
\* is no member; the field is assigned before the publish.
Device_state_set(h, s) ==
    IF ~Ok(h) THEN h
    ELSE IF s \notin States THEN Raise(h, "ValueError")
    ELSE Device_publish([h EXCEPT !.state = s], <<"$state">>, <<s>>, TRUE)

Device_disconnect(h) == Device_state_set(h, "disconnected")

\* self._extensions = extensions; self.publish("$extensions", ...)
Device_extensions_apply(h, x) ==
    IF ~Ok(h) THEN h
    ELSE Device_publish([h EXCEPT !.extensions = x], <<"$extensions">>, Join(x), TRUE)

Device_extensions_set(h, x) ==
    IF h.state \in RESTRICTED_STATES
    THEN Device_state_set(Device_extensions_apply(Device_state_set(h, "init"), x), h.state)
    ELSE Device_extensions_apply(h, x)

\* the isinstance test names "implemetation", which is not defined
Device_implementation_set(h, x) == Raise(h, "NameError")

Device_name_set(h, x) ==
    IF ~Ok(h) THEN h
    ELSE Device_publish([h EXCEPT !.name = x], <<"$name">>, x, TRUE)

Device_nodes(h) == IF h.state = "disconnected" THEN h.nodes_init ELSE h.nodes

\* d[key] = ... on a dict kept as the sequence of its keys
DictPut(d, key) == IF \E j \in 1..Len(d) : d[j] = key THEN d ELSE Append(d, key)
DictDel(d, key) == SelectSeq(d, LAMBDA x : x # key)
InDict(d, key) == \E j \in 1..Len(d) : d[j] = key

\* ------------------------------------------------------------ Node (leaf parts)

Node_state(h, n) == IF ~h.ndevice[n] THEN "disconnected" ELSE h.state

\* Node.state (setter): self.device.state = state
Node_state_set(h, n, s) ==
    IF ~Ok(h) THEN h
    ELSE IF ~h.ndevice[n] THEN Raise(h, "AttributeError")
    ELSE Device_state_set(h, s)

Node_properties(h, n) ==
    IF Node_state(h, n) = "disconnected" THEN h.nproperties_init[n] ELSE h.nproperties[n]

Node_publish(h, n, topic, payload, retain) ==
    IF ~Ok(h) THEN h
    ELSE IF ~h.ndevice[n] THEN Raise(h, "RuntimeError")
    ELSE Device_publish(h, <<n>> \o topic, payload, retain)

Node_subscribe(h, n, topic) ==
    IF ~Ok(h) THEN h
    ELSE IF ~h.ndevice[n] THEN Raise(h, "RuntimeError")
    ELSE Device_subscribe(h, <<n>> \o topic)

Node_name_set(h, n, x) ==
    IF ~Ok(h) THEN h
    ELSE Node_publish([h EXCEPT !.nname[n] = x], n, <<"$name">>, x, TRUE)

Node_type_set(h, n, x) ==
    IF ~Ok(h) THEN h
    ELSE Node_publish([h EXCEPT !.ntype[n] = x], n, <<"$type">>, x, TRUE)

\* ------------------------------------------------------------ Property

Property_state(h, p) == IF ~h.pnode[p] THEN "disconnected" ELSE Node_state(h, p[1])

\* Property.state (setter): self.node.state = state
Property_state_set(h, p, s) ==
    IF ~Ok(h) THEN h
    ELSE IF ~h.pnode[p] THEN Raise(h, "AttributeError")
    ELSE Node_state_set(h, p[1], s)

\* The payload Property.publish() computes for the bare value topic, as the
\* client then sends it.
ValuePayload(h, p) ==
    IF h.pvalue[p].k = "none" THEN NoneP
    ELSE IF h.pdata_type[p] = "boolean" THEN BoolStr(Truthy(h.pvalue[p]))
    ELSE ClientBytes(h.pvalue[p])

Property_publish(h, p, topic, payload) ==
    IF ~Ok(h) THEN h
    ELSE IF ~h.pnode[p] THEN Raise(h, "RuntimeError")
    ELSE IF topic = <<>>
         THEN Node_publish(h, p[1], <<p[2]>>, ValuePayload(h, p), h.pretained[p])
         ELSE Node_publish(h, p[1], <<p[2]>> \o topic, payload, TRUE)

Property_subscribe(h, p, topic) ==
    IF ~Ok(h) THEN h
    ELSE IF ~h.pnode[p] THEN Raise(h, "RuntimeError")
    ELSE Node_subscribe(h, p[1], <<p[2]>> \o topic)

Property_name_set(h, p, x) ==
    IF ~Ok(h) THEN h
    ELSE Property_publish([h EXCEPT !.pname[p] = x], p, <<"$name">>, x)

\* self._data_type = data_type; self.publish("$datatype", self.data_type)
Property_data_type_apply(h, p, x) ==
    IF ~Ok(h) THEN h
    ELSE Property_publish([h EXCEPT !.pdata_type[p] = x], p, <<"$datatype">>, <<x>>)

\* data_type assigned as name is, with no state change around the publish
Property_data_type_set_plain(h, p, x) == Property_data_type_apply(h, p, x)

Property_data_type_set(h, p, x) ==
    IF Property_state(h, p) \in RESTRICTED_STATES
    THEN Property_state_set(
             Property_data_type_apply(Property_state_set(h, p, "init"), p, x),
             p, Property_state(h, p))
    ELSE Property_data_type_apply(h, p, x)

Property_format_apply(h, p, x) ==
    IF ~Ok(h) THEN h
    ELSE Property_publish([h EXCEPT !.pformat[p] = x], p, <<"$format">>, x)

Property_format_set(h, p, x) ==
    IF Property_state(h, p) \in RESTRICTED_STATES
    THEN Property_state_set(
             Property_format_apply(Property_state_set(h, p, "init"), p, x),
             p, Property_state(h, p))
    ELSE Property_format_apply(h, p, x)

Property_retained_apply(h, p, x) ==
    IF ~Ok(h) THEN h
    ELSE Property_publish([h EXCEPT !.pretained[p] = x], p, <<"$retained">>, BoolStr(x))

Property_retained_set(h, p, x) ==
    IF Property_state(h, p) \in RESTRICTED_STATES
    THEN Property_state_set(
             Property_retained_apply(Property_state_set(h, p, "init"), p, x),
             p, Property_state(h, p))
    ELSE Property_retained_apply(h, p, x)

Property_settable_apply(h, p, x) ==
    IF ~Ok(h) THEN h
    ELSE Property_publish([h EXCEPT !.psettable[p] = x], p, <<"$settable">>, BoolStr(x))

\* settable assigned with READY, not the saved state, set at the end
Property_settable_set_ready(h, p, x) ==
    IF Property_state(h, p) \in RESTRICTED_STATES
    THEN Property_state_set(
             Property_settable_apply(Property_state_set(h, p, "init"), p, x), p, "ready")
    ELSE Property_settable_apply(h, p, x)

Property_settable_set(h, p, x) ==
    IF Property_state(h, p) \in RESTRICTED_STATES
    THEN Property_state_set(
             Property_settable_apply(Property_state_set(h, p, "init"), p, x),
             p, Property_state(h, p))
    ELSE Property_settable_apply(h, p, x)

Property_unit_apply(h, p, x) ==
    IF ~Ok(h) THEN h
    ELSE Property_publish([h EXCEPT !.punit[p] = x], p, <<"$unit">>, x)

Property_unit_set(h, p, x) ==
    IF Property_state(h, p) \in RESTRICTED_STATES
    THEN Property_state_set(
             Property_unit_apply(Property_state_set(h, p, "init"), p, x),
             p, Property_state(h, p))
    ELSE Property_unit_apply(h, p, x)

\* value published only where it changed
Property_value_set_changed(h, p, v) ==
    IF ~Ok(h) THEN h
    ELSE IF ~PyEq(h.pvalue[p], v)
         THEN Property_publish([h EXCEPT !.pvalue[p] = v], p, <<>>, NoneP)
         ELSE h

Property_value_set(h, p, v) ==
    IF ~Ok(h) THEN h
    ELSE Property_publish(IF ~PyEq(h.pvalue[p], v) THEN [h EXCEPT !.pvalue[p] = v] ELSE h,
                          p, <<>>, NoneP)

\* The statements of Property._on_connect, each on the heap the one before left.
Property_attach_node(h, p) == IF Ok(h) THEN [h EXCEPT !.pnode[p] = TRUE] ELSE h
Property_attach_name(h, p) == Property_name_set(h, p, h.pname[p])
Property_attach_data_type(h, p) == Property_data_type_set(h, p, h.pdata_type[p])
Property_attach_format(h, p) ==
    IF h.pformat[p] # NoneP THEN Property_format_set(h, p, h.pformat[p]) ELSE h
Property_attach_settable(h, p) == Property_settable_set(h, p, h.psettable[p])
Property_attach_subscribe(h, p) ==
    IF h.psettable[p] THEN Property_subscribe(h, p, <<"set">>) ELSE h
Property_attach_retained(h, p) == Property_retained_set(h, p, h.pretained[p])
Property_attach_unit(h, p) == Property_unit_set(h, p, h.punit[p])
Property_attach_value(h, p) ==
    IF h.pvalue[p].k # "none" THEN Property_value_set(h, p, h.pvalue[p]) ELSE h

Property__on_connect(h, p) ==
    Property_attach_value(
     Property_attach_unit(
      Property_attach_retained(
       Property_attach_subscribe(
        Property_attach_settable(
         Property_attach_format(
          Property_attach_data_type(
           Property_attach_name(
            Property_attach_node(h, p), p), p), p), p), p), p), p), p)

Property__on_disconnect(h, p) == IF Ok(h) THEN [h EXCEPT !.pnode[p] = FALSE] ELSE h

\* The value Property._on_message assigns for a payload, by data type; ok is
\* FALSE where the cast raises ValueError, and set is FALSE where no branch
\* assigns.
Decode(dt, payload) ==
    CASE dt = "integer" -> IF IntOk(payload)
                           THEN [ok |-> TRUE, set |-> TRUE, v |-> IntV(IntOf(payload))]
                           ELSE [ok |-> FALSE, set |-> FALSE, v |-> NoneV]
      [] dt = "boolean" -> [ok |-> TRUE, set |-> TRUE, v |-> BoolV(payload = <<"true">>)]
      [] dt = "string" -> [ok |-> TRUE, set |-> TRUE, v |-> StrV(payload)]
      [] OTHER -> [ok |-> TRUE, set |-> FALSE, v |-> NoneV]

\* if msg.topic == "set": self.value = <cast of msg.payload>
Property_set_message(h, p, d) ==
    IF ~d.ok THEN Raise(h, "ValueError")
    ELSE IF d.set THEN Property_value_set(h, p, d.v) ELSE h

\* What a delivery reached, in order: <<"set", n, p>> when a Property's set branch
\* is entered, and the on_message (or on_broadcast) hook of each entity when the
\* delivery gets to it.
Hook(h, who) == IF Ok(h) THEN [h EXCEPT !.hooks = Append(@, who)] ELSE h

Property__on_message(h, p, topic, payload) ==
    Hook(IF topic = <<"set">>
         THEN Property_set_message(Hook(h, <<"set", p[1], p[2]>>), p,
                                   Decode(h.pdata_type[p], payload))
         ELSE h,
         <<"property", p[1], p[2]>>)

\* ------------------------------------------------------------ Node (composition)

Node_put_property(h, n, pid) ==
    IF Ok(h) THEN [h EXCEPT !.nproperties[n] = DictPut(@, pid)] ELSE h

\* The end of add_property: state is read again, after the attach, and that
\* value decides whether a state is published after $properties.
Node_add_property_end(h, n) ==
    IF Node_state(h, n) \in RESTRICTED_STATES
    THEN Node_state_set(
             Node_publish(h, n, <<"$properties">>, Join(Node_properties(h, n)), TRUE),
             n, Node_state(h, n))
    ELSE Node_publish(h, n, <<"$properties">>, Join(Node_properties(h, n)), TRUE)

\* add_property publishing $state=init in every attached state, INIT included
Node_add_property_always(h, n, pid) ==
    IF ~Ok(h) THEN h
    ELSE IF Node_state(h, n) = "disconnected"
         THEN [h EXCEPT !.nproperties_init[n] = DictPut(@, pid)]
    ELSE IF InDict(h.nproperties[n], pid) THEN Raise(h, "RuntimeError")
    ELSE Node_add_property_end(
             Property__on_connect(
                 Node_put_property(Node_state_set(h, n, "init"), n, pid),
                 <<n, pid>>),
             n)

Node_add_property(h, n, pid) ==
    IF ~Ok(h) THEN h
    ELSE IF Node_state(h, n) = "disconnected"
         THEN [h EXCEPT !.nproperties_init[n] = DictPut(@, pid)]
    ELSE IF InDict(h.nproperties[n], pid) THEN Raise(h, "RuntimeError")
    ELSE Node_add_property_end(
             Property__on_connect(
                 Node_put_property(
                     IF Node_state(h, n) \in RESTRICTED_STATES
                     THEN Node_state_set(h, n, "init") ELSE h,
                     n, pid),
                 <<n, pid>>),
             n)

\* remove_property is declared without self: the call binds the Node to
\* property_id and the id has no parameter left
Node_remove_property(h, n, pid) == Raise(h, "TypeError")

RECURSIVE Node_add_each(_, _, _)
\* for property in self._properties_init.values(): self.add_property(property)
Node_add_each(h, n, pids) ==
    IF pids = <<>> THEN h
    ELSE Node_add_each(Node_add_property(h, n, pids[1]), n, Tail(pids))

Node_attach_device(h, n) == IF Ok(h) THEN [h EXCEPT !.ndevice[n] = TRUE] ELSE h
Node_attach_name(h, n) == Node_name_set(h, n, h.nname[n])
Node_attach_type(h, n) == Node_type_set(h, n, h.ntype[n])
Node_attach_properties(h, n) ==
    Node_add_each(Node_publish(h, n, <<"$properties">>, NoneP, TRUE), n, h.nproperties_init[n])

Node__on_connect(h, n) ==
    Node_attach_properties(Node_attach_type(Node_attach_name(Node_attach_device(h, n), n), n), n)

RECURSIVE Property_disconnect_each(_, _, _)
\* for property in self.properties.values(): property._on_disconnect()
Property_disconnect_each(h, n, pids) ==
    IF pids = <<>> THEN h
    ELSE Property_disconnect_each(Property__on_disconnect(h, <<n, pids[1]>>), n, Tail(pids))

\* self._properties_init = properties; self._properties = {}; self._device = None
Node_detach(h, n, properties) ==
    IF ~Ok(h) THEN h
    ELSE [h EXCEPT !.nproperties_init[n] = properties,
                   !.nproperties[n] = <<>>,
                   !.ndevice[n] = FALSE]

Node__on_disconnect(h, n) ==
    Node_detach(Property_disconnect_each(h, n, Node_properties(h, n)), n, Node_properties(h, n))

\* the message handed to the Node's first Property, whichever one the topic names
Node__on_message_first(h, n, topic, payload) ==
    Hook(IF topic # <<>> /\ InDict(Node_properties(h, n), topic[1])
         THEN Property__on_message(h, <<n, Node_properties(h, n)[1]>>, Tail(topic), payload)
         ELSE h,
         <<"node", n>>)

\* Node._on_message on the topic left after the node's segment
Node__on_message(h, n, topic, payload) ==
    Hook(IF topic # <<>> /\ InDict(Node_properties(h, n), topic[1])
         THEN Property__on_message(h, <<n, topic[1]>>, Tail(topic), payload)
         ELSE h,
         <<"node", n>>)

\* ------------------------------------------------------------ Device (composition)

Node_put(h, n) == IF Ok(h) THEN [h EXCEPT !.nodes = DictPut(@, n)] ELSE h

Device_publish_nodes(h) == Device_publish(h, <<"$nodes">>, Join(Device_nodes(h)), TRUE)

Device_add_node_body(h, n) == Device_publish_nodes(Node__on_connect(Node_put(h, n), n))

Device_add_node(h, n) ==
    IF ~Ok(h) THEN h
    ELSE IF h.state = "disconnected" THEN [h EXCEPT !.nodes_init = DictPut(@, n)]
    ELSE IF InDict(h.nodes, n) THEN Raise(h, "RuntimeError")
    ELSE IF h.state \in RESTRICTED_STATES
         THEN Device_state_set(Device_add_node_body(Device_state_set(h, "init"), n), h.state)
    ELSE Device_add_node_body(h, n)

Node_del(h, n) == IF Ok(h) THEN [h EXCEPT !.nodes = DictDel(@, n)] ELSE h

Device_remove_node_body(h, n) == Node_del(Node__on_disconnect(h, n), n)

Device_remove_node(h, n) ==
    IF ~Ok(h) THEN h
    ELSE IF h.state = "disconnected"
         THEN IF ~InDict(h.nodes_init, n) THEN Raise(h, "KeyError")
              ELSE [h EXCEPT !.nodes_init = DictDel(@, n)]
    ELSE IF ~InDict(Device_nodes(h), n) THEN Raise(h, "KeyError")
    ELSE IF h.state \in RESTRICTED_STATES
         THEN Device_state_set(Device_remove_node_body(Device_state_set(h, "init"), n), h.state)
    ELSE Device_remove_node_body(h, n)

\* Device.connect: the callbacks and the will are registered and the client is
\* asked to connect; the connected signal comes later.
Device_connect(h) ==
    IF h.state # "disconnected" THEN Raise(h, "RuntimeError")
    ELSE [h EXCEPT !.link = "down"]

RECURSIVE Device_add_each(_, _)
\* for node in self._nodes_init.values(): self.add_node(node)
Device_add_each(h, ns) ==
    IF ns = <<>> THEN h ELSE Device_add_each(Device_add_node(h, ns[1]), Tail(ns))

\* The statements of Device._on_connect after the rc test, each on the heap the
\* one before left.
Device_attach_start(h) ==
    Device_state_set(ClientSubscribe([h EXCEPT !.link = "up"], <<Root, "$broadcast", "#">>),
                     "init")
Device_attach_implementation(h) ==
    IF h.implementation # NoneP THEN Device_implementation_set(h, h.implementation) ELSE h
Device_attach_nodes(h) ==
    Device_add_each(Device_publish(h, <<"$nodes">>, NoneP, TRUE), h.nodes_init)
Device_attach_extensions(h) == Device_extensions_set(h, h.extensions)
Device_attach_name(h) == Device_name_set(h, h.name)
Device_attach_homie(h) == Device_publish(h, <<"$homie">>, HomieVersion, TRUE)

Device__on_connect(h, rc) ==
    IF rc # 0 THEN Raise(h, "RuntimeError")
    ELSE Device_attach_homie(
          Device_attach_name(
           Device_attach_extensions(
            Device_attach_nodes(
             Device_attach_implementation(
              Device_attach_start(h))))))

RECURSIVE Node_disconnect_each(_, _)
\* for node in self.nodes.values(): node._on_disconnect()
Node_disconnect_each(h, ns) ==
    IF ns = <<>> THEN h ELSE Node_disconnect_each(Node__on_disconnect(h, ns[1]), Tail(ns))

\* self._state = DISCONNECTED; self._nodes_init = self._nodes.  The client was
\* made with a clean session: its subscriptions ended with the connection.
Device_detach_start(h) ==
    [h EXCEPT !.link = "down", !.subs = {}, !.state = "disconnected", !.nodes_init = h.nodes]
Device_detach_nodes(h) == Node_disconnect_each(h, Device_nodes(h))
Device_detach_end(h) == IF Ok(h) THEN [h EXCEPT !.nodes = <<>>] ELSE h

Device__on_disconnect(h) == Device_detach_end(Device_detach_nodes(Device_detach_start(h)))

\* Device._on_message on the full topic
Device__on_message(h, topic, payload) ==
    IF Len(topic) >= 3 /\ topic[1] = Root /\ topic[2] = "$broadcast"
    THEN Hook(h, <<"broadcast">>)
    ELSE IF ~(Len(topic) >= 3 /\ topic[1] = Root /\ topic[2] = DevId) THEN h
    ELSE Hook(IF InDict(Device_nodes(h), topic[3])
              THEN Node__on_message(h, topic[3], SubSeq(topic, 4, Len(topic)), payload)
              ELSE h,
              <<"device">>)

\* ------------------------------------------------------------ the state machine

Kinds == {"life", "set", "tree", "msg"}
Max == [k \in Kinds |-> CASE k = "life" -> MaxLife [] k = "set" -> MaxSets
                                [] k = "tree" -> MaxTree [] OTHER -> MaxMsgs]

NoArg == [n |-> "", p |-> "", x |-> <<>>, v |-> NoneV, topic |-> <<>>]
DevArg(x) == [NoArg EXCEPT !.x = x]
NodeArg(n, x) == [NoArg EXCEPT !.n = n, !.x = x]
PropArg(p, x) == [NoArg EXCEPT !.n = p[1], !.p = p[2], !.x = x]

\* Inbound messages: a set on each Property, with every payload; and one message
\* each for an unknown node, an unknown property, a last segment that is not
\* "set", a topic that ends at the node, a broadcast and another device.
SetTopic(p) == <<Root, DevId, p[1], p[2], "set">>
Messages ==
    {<<SetTopic(p), pl>> : p \in Props, pl \in Payloads}
    \cup {<<t, <<"7", "5">>>> : t \in {<<Root, DevId, "nx", "p1", "set">>,
                                       <<Root, DevId, "n1", "px", "set">>,
                                       <<Root, DevId, "n1", "p1", "get">>,
                                       <<Root, DevId, "n1">>,
                                       <<Root, "$broadcast", "all">>,
                                       <<Root, "other", "n1", "p1", "set">>}}

\* The trees a caller constructs: Device(id, name, nodes, implementation) over
\* Node(id, name, type, properties) over Property(id, name, data_type, value,
\* settable).  In the first, n2 and n1's p2 are constructed and not yet added.
InitTrees ==
    {[nodes |-> <<"n1">>, props |-> [n \in Nodes |-> <<"p1">>], impl |-> NoneP],
     [nodes |-> <<"n1">>, props |-> [n \in Nodes |-> <<"p1">>], impl |-> <<"impl">>],
     [nodes |-> <<"n1", "n2">>,
      props |-> [n \in Nodes |-> IF n = "n1" THEN <<"p1", "p2">> ELSE <<"p1">>],
      impl |-> NoneP]}

\* no call of the setter is under way
NoCall == [at |-> "idle", n |-> "", p |-> "", x |-> FALSE, state |-> "disconnected"]

Constructed ==
    /\ \E t \in InitTrees :
          /\ nodes_init = t.nodes
          /\ nproperties_init = t.props
          /\ implementation = t.impl
    /\ state = "disconnected"
    /\ nodes = <<>>
    /\ name = <<"pump">>
    /\ extensions = <<>>
    /\ ndevice = [n \in Nodes |-> FALSE]
    /\ nproperties = [n \in Nodes |-> <<>>]
    /\ nname = [n \in Nodes |-> <<"motor">>]
    /\ ntype = [n \in Nodes |-> <<"actuator">>]
    /\ pnode = [p \in Props |-> FALSE]
    /\ pname = [p \in Props |-> <<"speed">>]
    /\ pdata_type = [p \in Props |-> IF p = <<"n1", "p1">> THEN "integer"
                                     ELSE IF p = <<"n1", "p2">> THEN "boolean" ELSE "string"]
    /\ pformat = [p \in Props |-> NoneP]
    /\ psettable = [p \in Props |-> p # <<"n1", "p2">>]
    /\ pretained = [p \in Props |-> TRUE]
    /\ punit = [p \in Props |-> <<"None">>]
    /\ pvalue = [p \in Props |-> IF p = <<"n1", "p2">> THEN BoolV(TRUE) ELSE NoneV]
    /\ link = "idle"
    /\ subs = {}
    /\ pubState = "none"
    /\ op = "init"
    /\ arg = NoArg
    /\ out = <<>>
    /\ exc = "none"
    /\ hooks = <<>>
    /\ steady = FALSE
    /\ was = "disconnected"
    /\ dyn = {}
    /\ pass = <<>>
    /\ call = NoCall

Init == Constructed /\ nops = [k \in Kinds |-> 0]

\* The lifecycle alone: MaxMore life operations more than MaxLife.
InitLife == Constructed /\ nops = [k \in Kinds |-> IF k = "life" THEN 0 - MaxMore ELSE 0]

\* One more operation of the given kind is made.
Budget(kind) ==
    /\ nops[kind] < Max[kind]
    /\ kind # "life" => nops["set"] + nops["tree"] + nops["msg"] < MaxSide
    /\ nops' = [nops EXCEPT ![kind] = @ + 1]

\* The code named o with inputs a ran from Heap and ended in r.
Effect(r, o, a) ==
    /\ op' = o
    /\ arg' = a
    /\ state' = r.state
    /\ nodes_init' = r.nodes_init
    /\ nodes' = r.nodes
    /\ name' = r.name
    /\ extensions' = r.extensions
    /\ implementation' = r.implementation
    /\ ndevice' = r.ndevice
    /\ nproperties_init' = r.nproperties_init
    /\ nproperties' = r.nproperties
    /\ nname' = r.nname
    /\ ntype' = r.ntype
    /\ pnode' = r.pnode
    /\ pname' = r.pname
    /\ pdata_type' = r.pdata_type
    /\ pformat' = r.pformat
    /\ psettable' = r.psettable
    /\ pretained' = r.pretained
    /\ punit' = r.punit
    /\ pvalue' = r.pvalue
    /\ link' = r.link
    /\ subs' = r.subs
    /\ pubState' = r.pubState
    /\ out' = r.out
    /\ exc' = r.exc
    /\ hooks' = r.hooks
    /\ steady' = r.steady
    /\ was' = state
    /\ dyn' = IF o = "add_node" /\ state # "disconnected" /\ r.exc = "none"
              THEN dyn \cup {a.n}
              ELSE IF o = "remove_node" /\ r.exc = "none" THEN dyn \ {a.n} ELSE dyn
    /\ pass' = IF o = "_on_connect" /\ a.x = <<"0">> THEN r.out
               ELSE IF o = "_on_disconnect" /\ op = "_on_connect" THEN pass
               ELSE <<>>

\* The operation named o (of the given kind) with inputs a ran from Heap and
\* ended in r.
Commit(r, o, a, kind) == Budget(kind) /\ call' = call /\ Effect(r, o, a)

\* host calls
Connect == Commit(Device_connect(Heap), "connect", NoArg, "life")
Disconnect == Commit(Device_disconnect(Heap), "disconnect", NoArg, "life")
SetState == \E s \in StateInputs : Commit(Device_state_set(Heap, s), "Device.state", DevArg(<<s>>), "life")
SetDeviceName == \E x \in DevNames : Commit(Device_name_set(Heap, x), "Device.name", DevArg(x), "set")
SetExtensions ==
    \E x \in ExtLists : Commit(Device_extensions_set(Heap, x), "Device.extensions", DevArg(x), "set")
SetImplementation ==
    Commit(Device_implementation_set(Heap, <<"impl">>), "Device.implementation", DevArg(<<"impl">>), "set")
AddNode == \E n \in Nodes : Commit(Device_add_node(Heap, n), "add_node", NodeArg(n, <<>>), "tree")
RemoveNode == \E n \in Nodes : Commit(Device_remove_node(Heap, n), "remove_node", NodeArg(n, <<>>), "tree")
AddProperty ==
    \E p \in Props : Commit(Node_add_property(Heap, p[1], p[2]), "add_property", PropArg(p, <<>>), "tree")
RemoveProperty ==
    \E p \in Props :
        Commit(Node_remove_property(Heap, p[1], p[2]), "remove_property", PropArg(p, <<>>), "tree")
SetNodeName ==
    \E n \in Nodes, x \in NodeNames : Commit(Node_name_set(Heap, n, x), "Node.name", NodeArg(n, x), "set")
SetNodeType ==
    \E n \in Nodes, x \in NodeTypes : Commit(Node_type_set(Heap, n, x), "Node.type", NodeArg(n, x), "set")
SetPropertyName ==
    \E p \in Props, x \in PropNames :
        Commit(Property_name_set(Heap, p, x), "Property.name", PropArg(p, x), "set")
SetDataType ==
    \E p \in Props, x \in DataTypes :
        Commit(Property_data_type_set(Heap, p, x), "Property.data_type", PropArg(p, <<x>>), "set")
SetFormat ==
    \E p \in Props, x \in Formats :
        Commit(Property_format_set(Heap, p, x), "Property.format", PropArg(p, x), "set")
SetSettable ==
    \E p \in Props, x \in BOOLEAN :
        Commit(Property_settable_set(Heap, p, x), "Property.settable", PropArg(p, BoolStr(x)), "set")
SetRetained ==
    \E p \in Props, x \in BOOLEAN :
        Commit(Property_retained_set(Heap, p, x), "Property.retained", PropArg(p, BoolStr(x)), "set")
SetUnit ==
    \E p \in Props, x \in Units :
        Commit(Property_unit_set(Heap, p, x), "Property.unit", PropArg(p, x), "set")
SetValue ==
    \E p \in Props, v \in Values :
        Commit(Property_value_set(Heap, p, v), "Property.value",
               [PropArg(p, <<>>) EXCEPT !.v = v], "set")

\* transport callbacks: the client calls them once Device.connect registered them
OnConnect ==
    /\ link = "down"
    /\ \E rc \in {0, 5} :
          Commit(Device__on_connect(Heap, rc), "_on_connect", DevArg(IntStr(rc)), "life")
OnDisconnect ==
    /\ link # "idle"
    /\ Commit(Device__on_disconnect(Heap), "_on_disconnect", NoArg, "life")
OnMessage ==
    /\ link = "up"
    /\ \E m \in Messages :
          Commit(Device__on_message(Heap, m[1], m[2]), "_on_message",
                 [NoArg EXCEPT !.topic = m[1], !.x = m[2]], "msg")

Next ==
    \/ Connect \/ Disconnect \/ SetState \/ SetDeviceName \/ SetExtensions
    \/ SetImplementation \/ AddNode \/ RemoveNode \/ AddProperty \/ RemoveProperty
    \/ SetNodeName \/ SetNodeType \/ SetPropertyName \/ SetDataType \/ SetFormat
    \/ SetSettable \/ SetRetained \/ SetUnit \/ SetValue
    \/ OnConnect \/ OnDisconnect \/ OnMessage

Spec == Init /\ [][Next]_vars

\* The lifecycle alone: the host's connect, disconnect, state assignment and
\* add_node, and the transport's signals.
NextLife == Connect \/ Disconnect \/ SetState \/ AddNode \/ OnConnect \/ OnDisconnect

SpecLife == InitLife /\ [][NextLife]_vars

\* The host assigns a restricted state once the connected signal was handled.
SetStateAttached ==
    /\ link = "up"
    /\ \E s \in RESTRICTED_STATES :
          Commit(Device_state_set(Heap, s), "Device.state", DevArg(<<s>>), "life")

\* A statement of a call under way ran from Heap and ended in r; c is where the
\* call then stands, unless the statement raised.
Step(r, o, c) ==
    /\ Effect(r, o, PropArg(<<call.n, call.p>>, BoolStr(call.x)))
    /\ call' = IF r.exc = "none" THEN c ELSE NoCall
    /\ UNCHANGED nops

\* Property.settable (setter), statement by statement, on a thread of the host,
\* while the client's thread runs the callbacks: state = self.state
SettableSave ==
    /\ call.at = "idle"
    /\ \E p \in Props, x \in BOOLEAN :
          /\ Budget("set")
          /\ Effect(Heap, "settable:save", PropArg(p, BoolStr(x)))
          /\ call' = [at |-> "saved", n |-> p[1], p |-> p[2], x |-> x,
                      state |-> Property_state(Heap, p)]
\* if state in Device.RESTRICTED_STATES: self.state = Device.State.INIT
SettableInit ==
    /\ call.at = "saved"
    /\ Step(IF call.state \in RESTRICTED_STATES
            THEN Property_state_set(Heap, <<call.n, call.p>>, "init") ELSE Heap,
            "settable:init", [call EXCEPT !.at = "init"])
\* self._settable = settable; self.publish("$settable", ...)
SettableApply ==
    /\ call.at = "init"
    /\ Step(Property_settable_apply(Heap, <<call.n, call.p>>, call.x),
            "settable:apply", [call EXCEPT !.at = "applied"])
\* if state in Device.RESTRICTED_STATES: self.state = state
SettableRestore ==
    /\ call.at = "applied"
    /\ Step(IF call.state \in RESTRICTED_STATES
            THEN Property_state_set(Heap, <<call.n, call.p>>, call.state) ELSE Heap,
            "settable:restore", NoCall)

\* A host thread in the setter, another assigning the state, and the client's
\* thread handling the signals.
NextRace ==
    \/ Connect \/ OnConnect \/ OnDisconnect \/ SetStateAttached
    \/ SettableSave \/ SettableInit \/ SettableApply \/ SettableRestore

SpecRace == Init /\ [][NextRace]_vars

\* ------------------------------------------------------------ the properties

StateTopic == DevTopic \o <<"$state">>
Pub(topic, payload, retain) ==
    [kind |-> "pub", topic |-> topic, payload |-> payload, retain |-> retain]
StatePub(s) == Pub(StateTopic, <<s>>, TRUE)

BracketedOps == {"Device.extensions", "Property.data_type", "Property.format",
                 "Property.settable", "Property.retained", "Property.unit"}
PlainOps == {"Device.name", "Node.name", "Node.type", "Property.name", "Property.value"}
SetterOps == BracketedOps \cup PlainOps \cup {"Device.implementation"}

\* The state of the entity the setter o with inputs a is called on.
EntityState(o, a) ==
    CASE o \in {"Device.name", "Device.extensions", "Device.implementation"} -> state
      [] o \in {"Node.name", "Node.type"} -> IF ndevice[a.n] THEN state ELSE "disconnected"
      [] OTHER -> IF pnode[<<a.n, a.p>>] /\ ndevice[a.n] THEN state ELSE "disconnected"

\* The topic the setter o publishes on.
SetterTopic(o, a) ==
    CASE o = "Device.name" -> DevTopic \o <<"$name">>
      [] o = "Device.extensions" -> DevTopic \o <<"$extensions">>
      [] o = "Device.implementation" -> DevTopic \o <<"$implementation">>
      [] o = "Node.name" -> DevTopic \o <<a.n, "$name">>
      [] o = "Node.type" -> DevTopic \o <<a.n, "$type">>
      [] o = "Property.name" -> DevTopic \o <<a.n, a.p, "$name">>
      [] o = "Property.data_type" -> DevTopic \o <<a.n, a.p, "$datatype">>
      [] o = "Property.format" -> DevTopic \o <<a.n, a.p, "$format">>
      [] o = "Property.settable" -> DevTopic \o <<a.n, a.p, "$settable">>
      [] o = "Property.retained" -> DevTopic \o <<a.n, a.p, "$retained">>
      [] o = "Property.unit" -> DevTopic \o <<a.n, a.p, "$unit">>
      [] OTHER -> DevTopic \o <<a.n, a.p>>

\* The field the setter o is about holds the value passed in a.
FieldHolds(o, a) ==
    CASE o = "Device.name" -> name = a.x
      [] o = "Device.extensions" -> extensions = a.x
      [] o = "Node.name" -> nname[a.n] = a.x
      [] o = "Node.type" -> ntype[a.n] = a.x
      [] o = "Property.name" -> pname[<<a.n, a.p>>] = a.x
      [] o = "Property.data_type" -> <<pdata_type[<<a.n, a.p>>]>> = a.x
      [] o = "Property.format" -> pformat[<<a.n, a.p>>] = a.x
      [] o = "Property.settable" -> BoolStr(psettable[<<a.n, a.p>>]) = a.x
      [] o = "Property.retained" -> BoolStr(pretained[<<a.n, a.p>>]) = a.x
      [] o = "Property.unit" -> punit[<<a.n, a.p>>] = a.x
      [] o = "Property.value" -> PyEq(pvalue[<<a.n, a.p>>], a.v)
      [] OTHER -> FALSE

C2_ConnectEndsReady ==
    [][(op' = "_on_connect" /\ arg'.x = <<"0">> /\ state = "disconnected")
        => /\ exc' = "none"
           /\ state' = "ready" /\ pubState' = "ready"
           /\ \A j \in 1..Len(nodes_init) :
                 /\ ndevice'[nodes_init[j]]
                 /\ InDict(nodes', nodes_init[j])
                 /\ \A k \in 1..Len(nproperties_init[nodes_init[j]]) :
                       pnode'[<<nodes_init[j], nproperties_init[nodes_init[j]][k]>>]]_vars

\* C3: Device.disconnect() raises from no state, and on a DISCONNECTED Device
\* it changes nothing and hands the client nothing.
C3_DisconnectSafe ==
    [][op' = "disconnect"
        => /\ exc' = "none"
           /\ state = "disconnected" => (UNCHANGED progvars /\ out' = <<>>)]_vars

NodesPubs(o) == SelectSeq(o, LAMBDA m : m.kind = "pub" /\ m.topic = DevTopic \o <<"$nodes">>)

\* C4: a Node added by add_node while the Device was attached is, after the
\* disconnected signal and the next connected signal (rc = 0), attached again,
\* and the last $nodes of that pass lists the nodes held at the disconnect.
C4_ReattachAfterReconnect ==
    [][(op = "_on_disconnect" /\ op' = "_on_connect" /\ arg'.x = <<"0">>
        /\ \E n \in dyn : InDict(nodes_init, n))
        => /\ \A n \in dyn : InDict(nodes_init, n) => ndevice'[n] /\ InDict(nodes', n)
           /\ NodesPubs(out') # <<>>
           /\ NodesPubs(out')[Len(NodesPubs(out'))].payload = Join(nodes_init)]_vars

\* C5: a setter called on an entity that is not attached to a connected Device
\* raises nothing, hands the client nothing, and leaves the new value in the
\* field (from where the next attach pass publishes it).
C5_DetachedSetterIsSilent ==
    [][(op' \in SetterOps \ {"Device.implementation"}
        /\ EntityState(op', arg') = "disconnected")
        => /\ exc' = "none"
           /\ out' = <<>>
           /\ FieldHolds(op, arg)']_vars

\* self.nodes and a Node's self.properties, as the delivery reads them
Children == IF state = "disconnected" THEN nodes_init ELSE nodes
ChildProps(n) ==
    IF ndevice[n] /\ state # "disconnected" THEN nproperties[n] ELSE nproperties_init[n]
IsSet(t) == Len(t) = 5 /\ t[1] = Root /\ t[2] = DevId /\ t[5] = "set"
KnownNode(t) == InDict(Children, t[3])
Known(t) == KnownNode(t) /\ InDict(ChildProps(t[3]), t[4])
Attached(p) == pnode[p] /\ ndevice[p[1]] /\ state # "disconnected"
SetEntries(hk) == SelectSeq(hk, LAMBDA e : e[1] = "set")

\* C6: a delivery on <root>/<device>/<node>/<property>/set whose node is a
\* child of the Device and whose property is a child of that node enters the
\* set branch of exactly that Property and changes no other Property's value
\* (and, where nothing is raised, calls the message hooks of that Property, its
\* Node and the Device, in that order); where the node or the property segment
\* is unknown it changes no value, hands the client nothing, raises nothing,
\* and calls the message hooks from the level of the mismatch upwards only.
C6_Routing ==
    [][(op' = "_on_message" /\ IsSet(arg'.topic))
        => IF Known(arg'.topic)
           THEN /\ SetEntries(hooks') = <<<<"set", arg'.topic[3], arg'.topic[4]>>>>
                /\ hooks'[1] = <<"set", arg'.topic[3], arg'.topic[4]>>
                /\ \A q \in Props : q # <<arg'.topic[3], arg'.topic[4]>> => pvalue'[q] = pvalue[q]
                /\ \A j \in 1..Len(out') : out'[j] = Pub(DevTopic \o <<arg'.topic[3], arg'.topic[4]>>,
                                                         out'[j].payload, out'[j].retain)
                /\ exc' = "none" =>
                      hooks' = <<<<"set", arg'.topic[3], arg'.topic[4]>>,
                                 <<"property", arg'.topic[3], arg'.topic[4]>>,
                                 <<"node", arg'.topic[3]>>, <<"device">>>>
           ELSE /\ pvalue' = pvalue
                /\ out' = <<>>
                /\ exc' = "none"
                /\ hooks' = (IF KnownNode(arg'.topic)
                             THEN <<<<"node", arg'.topic[3]>>, <<"device">>>>
                             ELSE <<<<"device">>>>)]_vars

\* A set was delivered to n1/p2 while n1 also holds p1, and reached p2 only;
\* and a set naming an unknown property stopped at the Node.
C6_Witness ==
    /\ op = "_on_message"
    /\ \/ /\ arg.topic = SetTopic(<<"n1", "p2">>)
          /\ hooks = <<<<"set", "n1", "p2">>, <<"property", "n1", "p2">>,
                       <<"node", "n1">>, <<"device">>>>
          /\ pvalue[<<"n1", "p2">>] = BoolV(FALSE)
       \/ /\ arg.topic = <<Root, DevId, "n1", "px", "set">>
          /\ hooks = <<<<"node", "n1">>, <<"device">>>>

\* C7: a set delivered to an attached Property whose settable is false changes
\* no value and publishes nothing.
C7_NotSettableDropped ==
    [][(op' = "_on_message" /\ IsSet(arg'.topic) /\ Known(arg'.topic)
        /\ Attached(<<arg'.topic[3], arg'.topic[4]>>)
        /\ ~psettable[<<arg'.topic[3], arg'.topic[4]>>])
        => /\ pvalue'[<<arg'.topic[3], arg'.topic[4]>>] = pvalue[<<arg'.topic[3], arg'.topic[4]>>]
           /\ out' = <<>>]_vars

\* A payload the data type dt takes.
WellFormed(dt, payload) ==
    CASE dt = "integer" -> IntOk(payload)
      [] dt = "boolean" -> payload \in {<<"true">>, <<"false">>}
      [] OTHER -> TRUE
\* The value a well-formed payload stands for.
Decoded(dt, payload) ==
    CASE dt = "integer" -> IntV(IntOf(payload))
      [] dt = "boolean" -> BoolV(payload = <<"true">>)
      [] OTHER -> StrV(payload)
\* The text sent for a value of a Property of data type dt.
Encoded(dt, v) ==
    CASE dt = "boolean" -> IF (v.k = "str" /\ v.s # <<>>) \/ (v.k # "str" /\ v.i # 0)
                           THEN <<"true">> ELSE <<"false">>
      [] v.k = "int" -> IntStr(v.i)
      [] v.k = "bool" -> IF v.i = 1 THEN <<"True">> ELSE <<"False">>
      [] OTHER -> v.s
C8_Case(t, payload) ==
    /\ IsSet(t) /\ Known(t) /\ Attached(<<t[3], t[4]>>)
    /\ psettable[<<t[3], t[4]>>]
    /\ WellFormed(pdata_type[<<t[3], t[4]>>], payload)

\* C8, as the specification states it: a set with a well-formed payload p,
\* delivered to an attached settable Property, sets the value to decode(p) and
\* publishes, once, on the Property's bare address, a payload equal to p.
C8_RepublishesPayload ==
    [][(op' = "_on_message" /\ C8_Case(arg'.topic, arg'.x))
        => /\ PyEq(pvalue'[<<arg'.topic[3], arg'.topic[4]>>],
                   Decoded(pdata_type[<<arg'.topic[3], arg'.topic[4]>>], arg'.x))
           /\ out' = <<Pub(DevTopic \o <<arg'.topic[3], arg'.topic[4]>>, arg'.x,
                           pretained[<<arg'.topic[3], arg'.topic[4]>>])>>]_vars

\* C8, as the code has it: such a set raises nothing, leaves the Property's
\* value equal to decode(p) (the old value is kept where it already compares
\* equal), and publishes exactly once, on the bare address, with the Property's
\* retained flag, the encoding of the value now held, also when it equals the
\* old one; where the value held is decode(p) that is "true"/"false" for a
\* boolean, p for a string, and for an integer the decimal text of the number,
\* which is p only where p is written that way ("075" is republished as "75").
C8_RepublishesEncoding ==
    [][(op' = "_on_message" /\ C8_Case(arg'.topic, arg'.x))
        => /\ exc' = "none"
           /\ PyEq(pvalue'[<<arg'.topic[3], arg'.topic[4]>>],
                   Decoded(pdata_type[<<arg'.topic[3], arg'.topic[4]>>], arg'.x))
           /\ ~PyEq(pvalue[<<arg'.topic[3], arg'.topic[4]>>],
                    Decoded(pdata_type[<<arg'.topic[3], arg'.topic[4]>>], arg'.x))
                 => pvalue'[<<arg'.topic[3], arg'.topic[4]>>]
                      = Decoded(pdata_type[<<arg'.topic[3], arg'.topic[4]>>], arg'.x)
           /\ out' = <<Pub(DevTopic \o <<arg'.topic[3], arg'.topic[4]>>,
                           Encoded(pdata_type[<<arg'.topic[3], arg'.topic[4]>>],
                                   pvalue'[<<arg'.topic[3], arg'.topic[4]>>]),
                           pretained[<<arg'.topic[3], arg'.topic[4]>>])>>
           /\ (pdata_type[<<arg'.topic[3], arg'.topic[4]>>] = "integer"
               /\ pvalue'[<<arg'.topic[3], arg'.topic[4]>>].k = "int")
                 => out'[1].payload = IntStr(IntOf(arg'.x))]_vars

\* The set "075" reached the settable integer Property n1/p1 and "75" was
\* republished.
C8_Witness ==
    /\ op = "_on_message" /\ exc = "none"
    /\ arg.topic = SetTopic(<<"n1", "p1">>) /\ arg.x = <<"0", "7", "5">>
    /\ psettable[<<"n1", "p1">>] /\ pdata_type[<<"n1", "p1">>] = "integer"
    /\ pvalue[<<"n1", "p1">>] = IntV(IntOf(<<"7", "5">>))
    /\ out = <<Pub(DevTopic \o <<"n1", "p1">>, <<"7", "5">>, pretained[<<"n1", "p1">>])>>

\* C9: a set whose payload is malformed for an integer Property raises nothing
\* out of Device._on_message, changes no value and publishes nothing.
C9_MalformedDropped ==
    [][(op' = "_on_message" /\ IsSet(arg'.topic) /\ Known(arg'.topic)
        /\ pdata_type[<<arg'.topic[3], arg'.topic[4]>>] = "integer"
        /\ ~IntOk(arg'.x))
        => /\ exc' = "none"
           /\ pvalue' = pvalue
           /\ out' = <<>>]_vars

\* C10, as the specification states it: the Device's state never goes in one
\* step from one of READY, SLEEPING, ALERT to another of them.
C10_NoDirectChange ==
    [][(state \in RESTRICTED_STATES /\ state' \in RESTRICTED_STATES) => state' = state]_vars

\* C10, as the code has it: the Device's state goes in one step from one of
\* READY, SLEEPING, ALERT to another of them only by an assignment to
\* Device.state, which the setter accepts from every state: it is not rejected,
\* and the only publish is $state with the new state.
C10_DirectChangeOnlyByAssignment ==
    [][(state \in RESTRICTED_STATES /\ state' \in RESTRICTED_STATES /\ state' # state)
        => /\ op' = "Device.state" /\ arg'.x = <<state'>>
           /\ exc' = "none"
           /\ out' = <<StatePub(state')>>
           /\ pubState' = state']_vars

\* Device.state was assigned ALERT on a READY Device, and the Device is in ALERT.
C10_Witness ==
    /\ op = "Device.state" /\ arg.x = <<"alert">> /\ exc = "none"
    /\ was = "ready" /\ state = "alert" /\ pubState = "alert"
    /\ out = <<StatePub("alert")>>

\* C11: in every device state, add_node with an id that is already a child of
\* the Device, and remove_node with an id that is no child, raise, hand the
\* client nothing and change nothing.
C11_DuplicateOrMissingFails ==
    [][(\/ op' = "add_node" /\ InDict(Children, arg'.n)
        \/ op' = "remove_node" /\ ~InDict(Children, arg'.n))
        => /\ exc' # "none"
           /\ out' = <<>>
           /\ UNCHANGED progvars]_vars

\* C12: two attach passes in sequence (connected signal, disconnected signal,
\* connected signal, with nothing else in between) hand the client the same
\* sequence of publishes (address, payload, retain) and subscriptions.
C12_SamePassTwice ==
    [][(op = "_on_disconnect" /\ pass # <<>> /\ op' = "_on_connect" /\ arg'.x = <<"0">>)
        => out' = pass]_vars

AnyP == <<"*">>
Item(kind, topic, payload) == [kind |-> kind, topic |-> topic, payload |-> payload]
ItemIs(it, m) ==
    m.kind = it.kind /\ m.topic = it.topic /\ (it.payload = AnyP \/ m.payload = it.payload)

RECURSIVE InOrder(_, _)
\* The items occur in the sequence s, in their order.
InOrder(items, s) ==
    IF items = <<>> THEN TRUE
    ELSE IF s = <<>> THEN FALSE
    ELSE IF ItemIs(items[1], s[1]) THEN InOrder(Tail(items), Tail(s))
    ELSE InOrder(items, Tail(s))

\* C13: for a Device with the one Node n1 holding the one settable Property p1,
\* the attach pass after the connected signal (rc = 0) publishes $homie,
\* $state=init, $name, n1/$name, n1/$type, n1/$properties=p1, n1/p1/$name,
\* n1/p1/$datatype, n1/p1/$settable=true, subscribes to n1/p1/set and then
\* publishes $state=ready, in that order, every publish retained.
C13_AttachOrder ==
    [][(op' = "_on_connect" /\ arg'.x = <<"0">> /\ state = "disconnected"
        /\ nodes_init = <<"n1">> /\ nodes = <<>> /\ nproperties_init["n1"] = <<"p1">>
        /\ psettable[<<"n1", "p1">>])
        => /\ InOrder(<<Item("pub", DevTopic \o <<"$homie">>, AnyP),
                        Item("pub", StateTopic, <<"init">>),
                        Item("pub", DevTopic \o <<"$name">>, AnyP),
                        Item("pub", DevTopic \o <<"n1", "$name">>, AnyP),
                        Item("pub", DevTopic \o <<"n1", "$type">>, AnyP),
                        Item("pub", DevTopic \o <<"n1", "$properties">>, <<"p1">>),
                        Item("pub", DevTopic \o <<"n1", "p1", "$name">>, AnyP),
                        Item("pub", DevTopic \o <<"n1", "p1", "$datatype">>, AnyP),
                        Item("pub", DevTopic \o <<"n1", "p1", "$settable">>, <<"true">>),
                        Item("sub", DevTopic \o <<"n1", "p1", "set">>, AnyP),
                        Item("pub", StateTopic, <<"ready">>)>>, out')
           /\ \A j \in 1..Len(out') : out'[j].kind = "pub" => out'[j].retain]_vars

\* C14: Node.add_property on a Node attached to a Device in a restricted state
\* S publishes $state=init first, attaches the Property, republishes the
\* Node's $properties with its id, publishes $state=S last, and leaves the
\* Device in S.
C14_AddPropertyBrackets ==
    [][(op' = "add_property" /\ ndevice[arg'.n] /\ state \in RESTRICTED_STATES
        /\ ~InDict(nproperties[arg'.n], arg'.p))
        => /\ exc' = "none"
           /\ pnode'[<<arg'.n, arg'.p>>]
           /\ InDict(nproperties'[arg'.n], arg'.p)
           /\ Len(out') >= 3
           /\ out'[1] = StatePub("init")
           /\ InOrder(<<Item("pub", DevTopic \o <<arg'.n, "$properties">>,
                             Join(nproperties'[arg'.n]))>>, out')
           /\ out'[Len(out')] = StatePub(state)
           /\ state' = state]_vars

\* C15: an add_node or remove_node completed on an attached Device publishes
\* $nodes, the last such payload being the comma-joined ids of the Device's
\* children after the call; in a restricted state S the publishes are inside
\* the bracket $state=init ... $state=S.
C15_NodesRepublished ==
    [][(op' \in {"add_node", "remove_node"} /\ state # "disconnected" /\ exc' = "none")
        => /\ NodesPubs(out') # <<>>
           /\ NodesPubs(out')[Len(NodesPubs(out'))].payload = Join(nodes')
           /\ state \in RESTRICTED_STATES
                 => /\ out'[1] = StatePub("init")
                    /\ out'[Len(out')] = StatePub(state)
                    /\ state' = state]_vars

\* C16: the disconnected signal detaches every Property held by a Node of the
\* Device, those added by add_property at runtime included, and keeps it in
\* its Node's pending set.
C16_DisconnectKeepsProperties ==
    [][op' = "_on_disconnect"
        => \A p \in Props :
              (InDict(nodes, p[1]) /\ ndevice[p[1]] /\ InDict(nproperties[p[1]], p[2]) /\ pnode[p])
                  => /\ ~pnode'[p]
                     /\ InDict(nproperties_init'[p[1]], p[2])]_vars

\* C17: in every reachable state the Device's state is DISCONNECTED exactly
\* when the transport is not connected (no connected signal handled since
\* construction or since the last disconnected signal); nothing is handed to
\* the transport while it is not connected, and no Node is attached while the
\* state is DISCONNECTED.
C17_DisconnectedIffNoTransport ==
    /\ state = "disconnected" <=> link # "up"
    /\ out # <<>> => link = "up"
    /\ state = "disconnected" => \A n \in Nodes : ~ndevice[n]

\* C18: with a bracketed setter of the host running concurrently with the
\* disconnected signal or with another mutation of the host, no interleaving
\* leaves the Device's state other than DISCONNECTED once the disconnected
\* signal has been handled, or publishes an attribute while the last $state
\* published is READY, SLEEPING or ALERT.
C18_AtomicSections ==
    /\ link = "down" => state = "disconnected"
    /\ ~steady

\* C19: a Property attached to a connected Device is subscribed to its set
\* address exactly when its settable flag is true.
C19_SubscribedIffSettable ==
    \A p \in Props : Attached(p) => (SetTopic(p) \in subs <=> psettable[p])

\* C20: a disconnected signal handled while the Device is already DISCONNECTED
\* leaves the pending tree unchanged: every Node that Device.nodes returned
\* before the signal is returned after it.
C20_DisconnectedSignalKeepsPending ==
    [][(op' = "_on_disconnect" /\ state = "disconnected")
        => /\ state' = "disconnected"
           /\ \A n \in Nodes : InDict(nodes_init, n) => InDict(nodes_init', n)]_vars

\* The positions of the $state publishes in a sequence of emissions.
StatePubs(s) == {j \in 1..Len(s) : s[j].kind = "pub" /\ s[j].topic = StateTopic}

\* C21: Device.add_node in a restricted state S, with a Node that is not yet a
\* child and carries pending Properties, completes and emits exactly two
\* $state publishes: $state=init as its first emission and $state=S as its
\* last; the Node's and the Properties' attach passes in between emit none, the
\* Properties are attached, and the Device is in S afterwards.
C21_AddNodeSingleBracket ==
    [][(op' = "add_node" /\ state \in RESTRICTED_STATES
        /\ ~InDict(nodes, arg'.n) /\ nproperties_init[arg'.n] # <<>>)
        => /\ exc' = "none"
           /\ Len(out') >= 2
           /\ out'[1] = StatePub("init")
           /\ out'[Len(out')] = StatePub(state)
           /\ StatePubs(out') = {1, Len(out')}
           /\ \A j \in 1..Len(nproperties_init[arg'.n]) :
                 /\ pnode'[<<arg'.n, nproperties_init[arg'.n][j]>>]
                 /\ InDict(nproperties'[arg'.n], nproperties_init[arg'.n][j])
           /\ state' = state]_vars

\* add_node has attached a Node with a pending Property on a READY Device
C21_Witness ==
    /\ op = "add_node" /\ exc = "none"
    /\ link = "up" /\ was = "ready" /\ state = "ready"
    /\ ndevice[arg.n] /\ nproperties[arg.n] # <<>>
    /\ Len(out) > 4
    /\ out[1] = StatePub("init")
    /\ out[Len(out)] = StatePub("ready")

====
